---- MODULE Spec2Model ----
(***************************************************************************)
(* Model of Inheritable (Block/BlockTree/Inheritable.ts): a tree of named  *)
(* nodes with a containment relation (parent / children) and an            *)
(* inheritance relation (base), the lazy cached `base` getter, setBase,    *)
(* resolveInheritance, resolveChild and the child management methods.      *)
(*                                                                         *)
(* A node is identified by a number.  The nodes constructed without a      *)
(* parent are 1..NumRoots; the node that newChild constructs for a parent  *)
(* n and a name is ChildId(n, name).  ensureChild constructs a node only   *)
(* for a key that has no entry and no entry is ever removed, so no two     *)
(* nodes are constructed for the same parent and name.                     *)
(*                                                                         *)
(* The generic parameters (Self, Parent, Child) make a base a node of the  *)
(* same kind as the node and a child a node of the next kind; kinds are    *)
(* modelled as the depth of a node in the containment tree.                *)
(***************************************************************************)
EXTENDS Integers, Sequences, FiniteSets, TLC

\* ---------------------------------------------------------------- bounds
NumRoots == 3      \* nodes constructed without a parent (Init)
MaxCalls == 2      \* calls after Init that construct or assign: newChild,
                   \* setBase, setChild and, where the returned collections
                   \* are observed, childrenMap, children and the edits of
                   \* their callers

\* ------------------------------------------------------------- constants
Null == 0                  \* undefined / null
Names == {"a", "b"}        \* child names and keys
NoName == "undefined"      \* _baseName before setBase
BaseNames == {"b"}         \* base names given to setBase after Init
Roots == 1..NumRoots

VARIABLES
  name,       \* _name, of every node constructed so far
  parent,     \* _parent (Null when absent)
  root,       \* _root
  children,   \* _children: node -> (key -> node or Null)
  base,       \* _base (Null is undefined)
  baseName,   \* _baseName
  hung,       \* TRUE once a call has entered a loop it never leaves
  watch,      \* the kind of call that is being observed
  last,       \* the latest call of the observed kind and what it returned
  decl,       \* history: the arguments of the latest setBase on n
  calls,      \* constructing and assigning calls made after Init
  keys,       \* the keys of _children in insertion order (Map iteration)
  snap        \* the collection the observed children()/childrenMap() call
              \* returned, as its caller has edited it since

vars == <<name, parent, root, children, base, baseName, hung, watch, last,
          decl, calls, keys, snap>>

\* The nodes constructed so far.
Nodes == DOMAIN name

\* The node newChild constructs for parent n and name key.
NameIndex(key) == IF key = "a" THEN 1 ELSE 2
ChildId(n, key) == NumRoots + Cardinality(Names) * (n - 1) + NameIndex(key)

\* f with the new node c, whose field is v.
With(f, c, v) == [x \in DOMAIN f \cup {c} |-> IF x = c THEN v ELSE f[x]]

NoChildren == [k \in Names |-> Null]
NoDecl == [name |-> NoName, b |-> Null]
NoSnap == [kind |-> "none", node |-> Null, live |-> FALSE, map |-> NoChildren,
           order |-> <<>>, list |-> <<>>]
NoCall == [op |-> "none", node |-> Null, key |-> NoName, res |-> Null,
           chain |-> <<>>]

RECURSIVE Depth(_)
Depth(n) == IF parent[n] = Null THEN 0 ELSE 1 + Depth(parent[n])

\* The memory a query reads and writes besides the tree: the base caches.
Mem == [base |-> base]

Ret(v, m) == [v |-> v, m |-> m, ok |-> TRUE, chain |-> <<>>]
Loops(m) == [v |-> Null, m |-> m, ok |-> FALSE, chain |-> <<>>]

\* getChild(key): this._children.get(key) || null
GetChild(n, key) == children[n][key]

\* get base(): the cached value, or the walk over the parent's inheritance
\* chain.  BaseWalk is the while loop; visited holds the candidates already
\* tried: coming back to one of them means the loop never ends.
RECURSIVE BaseGet(_, _), BaseWalk(_, _, _, _)

\* Mutant: the walk starts at the parent itself instead of the parent's base.
BaseGetFromParent(m, n) ==
  IF m.base[n] # Null \/ parent[n] = Null
  THEN Ret(m.base[n], m)
  ELSE BaseWalk(m, n, parent[n], {})

\* Mutant: the cached value is ignored and the chain is walked on every read.
BaseGetNoCache(m, n) ==
  IF parent[n] = Null
  THEN Ret(m.base[n], m)
  ELSE LET r == BaseGet(m, parent[n])
       IN IF ~r.ok THEN r ELSE BaseWalk(r.m, n, r.v, {})

\* Mutant: a node without a parent and without a cached base answers with
\* its root (itself) instead of undefined.
BaseGetRootDefault(m, n) ==
  IF m.base[n] # Null THEN Ret(m.base[n], m)
  ELSE IF parent[n] = Null THEN Ret(root[n], m)
  ELSE LET r == BaseGet(m, parent[n])
       IN IF ~r.ok THEN r ELSE BaseWalk(r.m, n, r.v, {})

BaseGet(m, n) ==
  IF m.base[n] # Null \/ parent[n] = Null
  THEN Ret(m.base[n], m)
  ELSE LET r == BaseGet(m, parent[n])
       IN IF ~r.ok THEN r ELSE BaseWalk(r.m, n, r.v, {})

\* Mutant: only the first candidate is asked; the loop does not advance.
BaseWalkOnce(m, n, baseParent, visited) ==
  IF baseParent = Null THEN Ret(Null, m)
  ELSE LET cls == GetChild(baseParent, name[n])
       IN Ret(cls, [m EXCEPT !.base[n] = cls])

\* Mutant: path compression; the base of the parent is moved to the
\* candidate on which the child was found.
BaseWalkCompresses(m, n, baseParent, visited) ==
  IF baseParent = Null THEN Ret(Null, [m EXCEPT !.base[n] = Null])
  ELSE IF baseParent \in visited THEN Loops(m)
  ELSE LET cls == GetChild(baseParent, name[n])
       IN IF cls # Null
          THEN Ret(cls, [m EXCEPT !.base[n] = cls,
                                  !.base[parent[n]] = baseParent])
          ELSE LET r == BaseGet(m, baseParent)
               IN IF ~r.ok THEN r
                  ELSE BaseWalk(r.m, n, r.v, visited \cup {baseParent})

\* Mutant: the walk runs to the end of the chain; the most distant match
\* wins.
BaseWalkFarthest(m, n, baseParent, visited) ==
  IF baseParent = Null THEN Ret(Null, [m EXCEPT !.base[n] = Null])
  ELSE IF baseParent \in visited THEN Loops(m)
  ELSE LET cls == GetChild(baseParent, name[n])
           r == BaseGet(m, baseParent)
       IN IF ~r.ok THEN r
          ELSE LET far == BaseWalk(r.m, n, r.v, visited \cup {baseParent})
               IN IF ~far.ok \/ far.v # Null \/ cls = Null THEN far
                  ELSE Ret(cls, [far.m EXCEPT !.base[n] = cls])

\* Mutant: the loop does not advance to the next candidate.
BaseWalkNoAdvance(m, n, baseParent, visited) ==
  IF baseParent = Null THEN Ret(Null, [m EXCEPT !.base[n] = Null])
  ELSE IF baseParent \in visited THEN Loops(m)
  ELSE LET cls == GetChild(baseParent, name[n])
       IN IF cls # Null
          THEN Ret(cls, [m EXCEPT !.base[n] = cls])
          ELSE BaseWalk(m, n, baseParent, visited \cup {baseParent})

BaseWalk(m, n, baseParent, visited) ==
  IF baseParent = Null THEN Ret(Null, [m EXCEPT !.base[n] = Null])
  ELSE IF baseParent \in visited THEN Loops(m)
  ELSE LET cls == GetChild(baseParent, name[n])
       IN IF cls # Null
          THEN Ret(cls, [m EXCEPT !.base[n] = cls])
          ELSE LET r == BaseGet(m, baseParent)
               IN IF ~r.ok THEN r
                  ELSE BaseWalk(r.m, n, r.v, visited \cup {baseParent})

\* The calls whose results are observed.
Kinds == {"base", "resolveInheritance", "resolveChild", "ensureChild",
          "snapshot"}

\* The call (op, n, key) returned res (and chain, for resolveInheritance).
Noted(op, n, key, res, chain) ==
  IF watch = op
  THEN [op |-> op, node |-> n, key |-> key, res |-> res, chain |-> chain]
  ELSE last

\* The child the last root has in the initial state.
InitChild == ChildId(NumRoots, "a")
InitNodes == Roots \cup {InitChild}

\* The bases declared in the initial state.
InitDecl ==
  [n \in InitNodes |-> IF n < NumRoots THEN [name |-> "a", b |-> n + 1]
                                       ELSE NoDecl]

\* The state the builder leaves: NumRoots nodes constructed without a parent,
\* named "a", each but the last one declared (setBase) to extend the next,
\* and the last one given a child "a" (ensureChild).
Init ==
  /\ name = [n \in InitNodes |-> "a"]
  /\ parent = [n \in InitNodes |-> IF n = InitChild THEN NumRoots ELSE Null]
  /\ root = [n \in InitNodes |-> IF n = InitChild THEN NumRoots ELSE n]
  /\ children = [n \in InitNodes |->
                   IF n = NumRoots THEN [NoChildren EXCEPT !["a"] = InitChild]
                                   ELSE NoChildren]
  /\ base = [n \in InitNodes |-> InitDecl[n].b]
  /\ baseName = [n \in InitNodes |-> InitDecl[n].name]
  /\ decl = InitDecl
  /\ hung = FALSE
  /\ watch \in Kinds
  /\ last = NoCall
  /\ calls = 0
  /\ keys = [n \in InitNodes |-> IF n = NumRoots THEN <<"a">> ELSE <<>>]
  /\ snap = NoSnap

\* Mutant: resolveChild registers the child it found in the node's own map.
FinishMemoizes(r, op, n, key) ==
  /\ hung' = ~r.ok
  /\ base' = r.m.base
  /\ last' = Noted(op, n, key, r.v, r.chain)
  /\ IF op = "resolveChild" /\ r.ok /\ r.v # Null /\ children[n][key] = Null
     THEN /\ children' = [children EXCEPT ![n][key] = r.v]
          /\ keys' = [keys EXCEPT ![n] = Append(@, key)]
     ELSE UNCHANGED <<children, keys>>
  /\ UNCHANGED <<name, parent, root, baseName, decl, watch, calls, snap>>

\* What a query leaves behind: the memory it wrote, or the endless loop.
Finish(r, op, n, key) ==
  /\ hung' = ~r.ok
  /\ base' = r.m.base
  /\ last' = Noted(op, n, key, r.v, r.chain)
  /\ UNCHANGED <<name, parent, root, children, baseName, decl, watch, calls,
                 keys, snap>>

\* n.base
ReadBase(n) ==
  /\ ~hung
  /\ Finish(BaseGet(Mem, n), "base", n, NoName)

\* resolveInheritance(): the while loop; b is the local `base`, acc the
\* array `inherited`.
RECURSIVE InheritanceWalk(_, _, _, _)

\* Mutant: push instead of unshift.
InheritanceWalkPush(m, b, acc, visited) ==
  IF b = Null THEN [Ret(Null, m) EXCEPT !.chain = acc]
  ELSE IF b \in visited THEN Loops(m)
  ELSE LET r == BaseGet(m, b)
       IN IF ~r.ok THEN r
          ELSE InheritanceWalk(r.m, r.v, acc \o <<b>>, visited \cup {b})

\* Mutant: the loop stops when it comes back to a node it has visited.
InheritanceWalkStops(m, b, acc, visited) ==
  IF b = Null \/ b \in visited THEN [Ret(Null, m) EXCEPT !.chain = acc]
  ELSE LET r == BaseGet(m, b)
       IN IF ~r.ok THEN r
          ELSE InheritanceWalk(r.m, r.v, <<b>> \o acc, visited \cup {b})

InheritanceWalk(m, b, acc, visited) ==
  IF b = Null THEN [Ret(Null, m) EXCEPT !.chain = acc]
  ELSE IF b \in visited THEN Loops(m)
  ELSE LET r == BaseGet(m, b)
       IN IF ~r.ok THEN r
          ELSE InheritanceWalk(r.m, r.v, <<b>> \o acc, visited \cup {b})

ResolveInheritance(m, n) ==
  LET r == BaseGet(m, n)
  IN IF ~r.ok THEN r ELSE InheritanceWalk(r.m, r.v, <<>>, {})

\* resolveChild(name): the while loop; state and container are its locals.
RECURSIVE ResolveWalk(_, _, _, _, _)

\* Mutant: only the node's own base is asked; the loop does not advance.
ResolveWalkOnce(m, state, container, key, visited) ==
  IF ~(state = Null /\ container # Null) THEN Ret(state, m)
  ELSE Ret(GetChild(container, key), m)

\* Mutant: the loop runs to the end of the chain; the most distant match wins.
ResolveWalkLast(m, state, container, key, visited) ==
  IF container = Null THEN Ret(state, m)
  ELSE IF container \in visited THEN Loops(m)
  ELSE LET r == BaseGet(m, container)
           found == GetChild(container, key)
       IN IF ~r.ok THEN r
          ELSE ResolveWalk(r.m,
                           IF state = Null \/ found # Null THEN found ELSE state,
                           r.v, key, visited \cup {container})

ResolveWalk(m, state, container, key, visited) ==
  IF ~(state = Null /\ container # Null) THEN Ret(state, m)
  ELSE IF container \in visited THEN Loops(m)
  ELSE LET r == BaseGet(m, container)
       IN IF ~r.ok THEN r
          ELSE ResolveWalk(r.m, GetChild(container, key), r.v, key,
                           visited \cup {container})

\* Mutant: the inheritance chain is asked first, the node itself last.
ResolveChildBaseFirst(m, n, key) ==
  LET r == BaseGet(m, n)
  IN IF ~r.ok THEN r
     ELSE LET w == ResolveWalk(r.m, Null, r.v, key, {})
          IN IF w.ok /\ w.v = Null THEN Ret(GetChild(n, key), w.m) ELSE w

ResolveChild(m, n, key) ==
  LET r == BaseGet(m, n)
  IN IF ~r.ok THEN r ELSE ResolveWalk(r.m, GetChild(n, key), r.v, key, {})

\* n.resolveInheritance()
CallResolveInheritance(n) ==
  /\ ~hung
  /\ Finish(ResolveInheritance(Mem, n), "resolveInheritance", n, NoName)

\* n.resolveChild(key)
CallResolveChild(n, key) ==
  /\ ~hung
  /\ Finish(ResolveChild(Mem, n, key), "resolveChild", n, key)

\* n.getChild(key)
CallGetChild(n, key) ==
  /\ ~hung
  /\ last' = Noted("getChild", n, key, GetChild(n, key), <<>>)
  /\ UNCHANGED <<name, parent, root, children, base, baseName, hung, decl,
                 watch, calls, keys, snap>>

\* Mutant: setBase leaves a base that is already cached alone.
BaseAfterSetOnce(n, b) ==
  IF base[n] # Null THEN base ELSE [base EXCEPT ![n] = b]

\* setBase(baseName, base): the two assignments.
BaseAfterSet(n, b) == [base EXCEPT ![n] = b]
BaseNameAfterSet(n, bn) == [baseName EXCEPT ![n] = bn]

\* n.setBase(bn, b); b is a node of n's kind.
SetBase(n, bn, b) ==
  /\ ~hung
  /\ calls < MaxCalls
  /\ Depth(b) = Depth(n)
  /\ baseName' = BaseNameAfterSet(n, bn)
  /\ base' = BaseAfterSet(n, b)
  /\ decl' = [decl EXCEPT ![n] = [name |-> bn, b |-> b]]
  /\ calls' = calls + 1
  /\ last' = Noted("setBase", n, bn, b, <<>>)
  /\ UNCHANGED <<name, parent, root, children, hung, watch, keys, snap>>

\* setChild(key, value): this._children.set(key, value), on the mappings ch.
ChildrenAfterSet(ch, n, key, value) == [ch EXCEPT ![n][key] = value]

\* The nodes of a sequence.
Range(seq) == {seq[i] : i \in 1..Len(seq)}

\* Map.set keeps the place of a key that has an entry and puts a new key last.
OrderAfterSet(order, key) ==
  IF key \in Range(order) THEN order ELSE Append(order, key)

KeysAfterSet(ks, n, key) == [ks EXCEPT ![n] = OrderAfterSet(@, key)]

\* n.setChild(key, c); c is a node of the kind of n's children.
SetChild(n, key, c) ==
  /\ ~hung
  /\ calls < MaxCalls
  /\ Depth(c) = Depth(n) + 1
  /\ children' = ChildrenAfterSet(children, n, key, c)
  /\ keys' = KeysAfterSet(keys, n, key)
  /\ calls' = calls + 1
  /\ last' = Noted("setChild", n, key, c, <<>>)
  /\ UNCHANGED <<name, parent, root, base, baseName, hung, decl, watch, snap>>

\* Mutant: the test is dropped; the factory runs on every call.
LacksChildAlways(n, key) == TRUE

\* ensureChild(name): the test `!this._children.has(name)`
LacksChild(n, key) == children[n][key] = Null

\* newChild(name): the subclass factory constructs the node c, named `key`,
\* with n as its parent and n's root as its root, no children and no base.
NewChild(n, key, c) ==
  /\ calls < MaxCalls
  /\ calls' = calls + 1
  /\ name' = With(name, c, key)
  /\ parent' = With(parent, c, n)
  /\ root' = With(root, c, root[n])
  /\ base' = With(base, c, Null)
  /\ baseName' = With(baseName, c, NoName)
  /\ decl' = With(decl, c, NoDecl)

\* n.ensureChild(key)
EnsureChild(n, key) ==
  /\ ~hung
  /\ IF LacksChild(n, key)
     THEN /\ NewChild(n, key, ChildId(n, key))
          /\ children' = ChildrenAfterSet(
                           With(children, ChildId(n, key), NoChildren),
                           n, key, ChildId(n, key))
          /\ keys' = KeysAfterSet(With(keys, ChildId(n, key), <<>>), n, key)
     ELSE UNCHANGED <<name, parent, root, children, base, baseName, decl,
                      calls, keys>>
  /\ last' = Noted("ensureChild", n, key, children'[n][key], <<>>)
  /\ UNCHANGED <<hung, watch, snap>>

\* The accessors name, baseName, parent and block.
Accessors == {"name", "baseName", "parent", "block"}

Accessor(n, f) ==
  CASE f = "name" -> name[n]
    [] f = "baseName" -> baseName[n]
    [] f = "parent" -> parent[n]
    [] f = "block" -> root[n]

\* n.name, n.baseName, n.parent, n.block, on any node n: a field is
\* returned, nothing is assigned.
ReadAccessor ==
  /\ ~hung
  /\ UNCHANGED vars

\* Mutant: childrenMap() hands out the node's own map.
ChildrenMapLive(n) ==
  [kind |-> "map", node |-> n, live |-> TRUE, map |-> children[n],
   order |-> keys[n], list |-> <<>>]

\* childrenMap(): new Map(this._children), a map of its own holding the
\* entries of _children in their order.  (live: the collection is the
\* node's own map, so that its content is the content of _children.)
ChildrenMap(n) ==
  [kind |-> "map", node |-> n, live |-> FALSE, map |-> children[n],
   order |-> keys[n], list |-> <<>>]

\* children(): [...this._children.values()], an array of its own holding the
\* values of _children in the order of their keys.
ChildrenList(n) ==
  [kind |-> "list", node |-> n, live |-> FALSE, map |-> NoChildren,
   order |-> <<>>,
   list |-> [i \in 1..Len(keys[n]) |-> children[n][keys[n][i]]]]

\* What the caller that holds the collection s reads in it.
Content(s) ==
  IF s.live THEN [s EXCEPT !.map = children[s.node], !.order = keys[s.node]]
  ELSE s

\* n.childrenMap(), on any node n.  The returned map is part of the state
\* when these calls are observed.
CallChildrenMap ==
  /\ ~hung
  /\ IF watch = "snapshot"
     THEN /\ calls < MaxCalls
          /\ calls' = calls + 1
          /\ \E n \in Nodes : snap' = ChildrenMap(n)
     ELSE UNCHANGED <<snap, calls>>
  /\ UNCHANGED <<name, parent, root, children, base, baseName, hung, watch,
                 last, decl, keys>>

\* n.children(), on any node n.
CallChildren ==
  /\ ~hung
  /\ IF watch = "snapshot"
     THEN /\ calls < MaxCalls
          /\ calls' = calls + 1
          /\ \E n \in Nodes : snap' = ChildrenList(n)
     ELSE UNCHANGED <<snap, calls>>
  /\ UNCHANGED <<name, parent, root, children, base, baseName, hung, watch,
                 last, decl, keys>>

\* The map after set(key, v), for a node v, or delete(key), for v = Null.
MapAfterEdit(s, key, v) ==
  [s EXCEPT !.map = [@ EXCEPT ![key] = v],
            !.order = IF v = Null THEN SelectSeq(@, LAMBDA x : x # key)
                                  ELSE OrderAfterSet(@, key)]

\* The caller of childrenMap() edits the map it was given.
EditMap ==
  /\ ~hung
  /\ IF watch = "snapshot"
     THEN /\ snap.kind = "map"
          /\ calls < MaxCalls
          /\ calls' = calls + 1
          /\ \E key \in Names,
                v \in {x \in Nodes : Depth(x) = Depth(snap.node) + 1}
                       \cup {Null} :
               LET e == MapAfterEdit(Content(snap), key, v)
               IN IF snap.live
                  THEN /\ children' = [children EXCEPT ![snap.node] = e.map]
                       /\ keys' = [keys EXCEPT ![snap.node] = e.order]
                       /\ snap' = snap
                  ELSE /\ snap' = e
                       /\ UNCHANGED <<children, keys>>
     ELSE UNCHANGED <<children, keys, snap, calls>>
  /\ UNCHANGED <<name, parent, root, base, baseName, hung, watch, last, decl>>

\* The array after a[i] = v or push(v), for a node v, or splice(i, 1), for
\* v = Null.
ListAfterEdit(s, i, v) ==
  [s EXCEPT !.list = IF v = Null
                     THEN SubSeq(@, 1, i - 1) \o SubSeq(@, i + 1, Len(@))
                     ELSE IF i <= Len(@) THEN [@ EXCEPT ![i] = v]
                     ELSE Append(@, v)]

\* The caller of children() edits the array it was given.
EditList ==
  /\ ~hung
  /\ IF watch = "snapshot"
     THEN /\ snap.kind = "list"
          /\ calls < MaxCalls
          /\ calls' = calls + 1
          /\ \E i \in 1..(Len(snap.list) + 1),
                v \in {x \in Nodes : Depth(x) = Depth(snap.node) + 1}
                       \cup {Null} :
               /\ v = Null => i <= Len(snap.list)
               /\ snap' = ListAfterEdit(snap, i, v)
     ELSE UNCHANGED <<snap, calls>>
  /\ UNCHANGED <<name, parent, root, children, base, baseName, hung, watch,
                 last, decl, keys>>

\* A call that never returns: the program stays in its loop.
Spin ==
  /\ hung
  /\ UNCHANGED vars

Next ==
  \/ \E n \in Nodes : ReadBase(n)
  \/ \E n \in Nodes : CallResolveInheritance(n)
  \/ \E n \in Nodes, key \in Names : CallResolveChild(n, key)
  \/ \E n \in Nodes, key \in Names : CallGetChild(n, key)
  \/ \E n \in Nodes, bn \in BaseNames, b \in Nodes : SetBase(n, bn, b)
  \/ \E n \in Nodes, key \in Names, c \in Nodes : SetChild(n, key, c)
  \/ \E n \in Nodes, key \in Names : EnsureChild(n, key)
  \/ ReadAccessor
  \/ CallChildrenMap
  \/ CallChildren
  \/ EditMap
  \/ EditList
  \/ Spin

Spec == Init /\ [][Next]_vars

\* The same program, with one kind of call observed.
InitBase == Init /\ watch = "base"
InitInheritance == Init /\ watch = "resolveInheritance"
InitResolve == Init /\ watch = "resolveChild"
InitEnsure == Init /\ watch = "ensureChild"
InitSnapshot == Init /\ watch = "snapshot"
SpecBase == InitBase /\ [][Next]_vars
SpecInheritance == InitInheritance /\ [][Next]_vars
SpecResolve == InitResolve /\ [][Next]_vars
SpecEnsure == InitEnsure /\ [][Next]_vars
SpecSnapshot == InitSnapshot /\ [][Next]_vars
\* What a read of x.base returns now (Null also when it does not return).
BaseOf(x) == LET r == BaseGet(Mem, x) IN IF r.ok THEN r.v ELSE Null

\* The nodes x.base, x.base.base, ... as reads return them, at most k of them.
RECURSIVE Follow(_, _)
Follow(x, k) ==
  LET b == BaseOf(x)
  IN IF k = 0 \/ b = Null THEN <<>> ELSE <<b>> \o Follow(b, k - 1)

\* The inheritance chain of x, nearest base first.  A chain that comes back
\* to a node is cut after every node of it has been listed.
BaseChain(x) == Follow(x, Cardinality(Nodes))

\* The direct child registered under key on the first node of seq that has
\* one, Null if none has.
FirstChild(seq, key) ==
  LET I == {i \in 1..Len(seq) : children[seq[i]][key] # Null}
  IN IF I = {} THEN Null
     ELSE children[seq[CHOOSE i \in I : \A j \in I : i <= j]][key]

\* ------------------------------------------------------------------------
\* C1. Lazy base derivation: a read of n.base, for a node n that has a
\* parent p and no cached base (every first read of a node on which setBase
\* was never called is such a read), returns, when it returns, the direct
\* child registered under n.name on the first node of p.base, p.base.base,
\* ... that has one, and absent when none of them has one.
C1_LazyBaseDerivation ==
  \A n \in Nodes :
    (base[n] = Null /\ parent[n] # Null) =>
      LET r == BaseGet(Mem, n)
      IN r.ok => r.v = FirstChild(BaseChain(parent[n]), name[n])

\* A read of n.base found n's base on the second node of the parent's chain,
\* the first one having no child of that name.
C1_Witness ==
  /\ last.op = "base"
  /\ ~hung
  /\ parent[last.node] # Null
  /\ decl[last.node] = NoDecl
  /\ last.res # Null
  /\ LET c == BaseChain(parent[last.node])
     IN /\ Len(c) >= 2
        /\ children[c[1]][name[last.node]] = Null
        /\ children[c[2]][name[last.node]] = last.res

\* C2. Base caching of a found base: a read of n.base that returns a node
\* leaves that node cached; a cached node b stays cached over every step
\* that is not a setBase on n (child insertions and overwrites anywhere, and
\* reads), and while it is cached a read of n.base returns b.  So once a
\* read has returned b every later read returns b until setBase is called
\* on n.
C2_Step ==
  /\ \A n \in Nodes :
       LET r == BaseGet(Mem, n)
       IN (r.ok /\ r.v # Null) => r.m.base[n] = r.v
  /\ \A n \in Nodes :
       (base[n] # Null /\ decl'[n] = decl[n]) =>
         /\ base'[n] = base[n]
         /\ BaseGet(Mem, n)' = Ret(base[n], Mem')

C2_BaseCachingFound == [][C2_Step]_vars

\* A read of n.base returned a node of the parent's chain; afterwards a child
\* named n.name was registered on a nearer node of that chain, so that a
\* fresh derivation would give another node.
C2_Witness ==
  /\ last.op = "base"
  /\ ~hung
  /\ parent[last.node] # Null
  /\ decl[last.node] = NoDecl
  /\ last.res # Null
  /\ base[last.node] = last.res
  /\ FirstChild(BaseChain(parent[last.node]), name[last.node])
       \notin {Null, last.res}

\* C3. Caching of the "no base" outcome: after a read of n.base, for a node
\* n with a parent, has returned absent, a read of n.base returns absent,
\* whatever children were added since (no setBase call being made: every
\* node's declared base is the one it had in the initial state).
C3_AbsentCached ==
  (/\ last.op = "base"
   /\ ~hung
   /\ \A n \in Nodes : decl[n] = IF n \in InitNodes THEN InitDecl[n] ELSE NoDecl
   /\ parent[last.node] # Null
   /\ last.res = Null)
  => LET r == BaseGet(Mem, last.node) IN r.ok => r.v = Null

\* C4. The base never changes once resolved: after a read of n.base has
\* returned a value (n is resolved, by that read or earlier), a read of
\* n.base returns that value, whatever calls (setBase on n included) were
\* made since.
C4_BaseNeverChanges ==
  (last.op = "base" /\ ~hung)
  => LET r == BaseGet(Mem, last.node) IN r.ok => r.v = last.res

\* C5. setBase overrides: in every state after a setBase(baseName, b) on n
\* (the latest one on n), whatever n's base state was before, n.baseName is
\* baseName and a read of n.base returns b and leaves every cache as it is
\* (no chain is walked).
C5_SetBaseOverrides ==
  \A n \in Nodes :
    decl[n] # NoDecl =>
      /\ baseName[n] = decl[n].name
      /\ BaseGet(Mem, n) = Ret(decl[n].b, Mem)

\* setBase was called on a node n with a parent whose chain holds another
\* child named n.name, and a read of n.base then returned setBase's node.
C5_Witness ==
  /\ last.op = "base"
  /\ ~hung
  /\ parent[last.node] # Null
  /\ decl[last.node] # NoDecl
  /\ last.res = decl[last.node].b
  /\ FirstChild(BaseChain(parent[last.node]), name[last.node])
       \notin {Null, last.res}

\* C6. Precedence in resolveChild: when n has a direct child registered
\* under k, n.resolveChild(k) returns (when it returns) that child, whatever
\* children named k the nodes of n's inheritance chain have.
C6_DirectChildFirst ==
  \A n \in Nodes, k \in Names :
    children[n][k] # Null =>
      LET r == ResolveChild(Mem, n, k) IN r.ok => r.v = children[n][k]

\* resolveChild(k) returned n's direct child while a node of n's inheritance
\* chain has another child registered under k.
C6_Witness ==
  /\ last.op = "resolveChild"
  /\ ~hung
  /\ last.res # Null
  /\ children[last.node][last.key] = last.res
  /\ FirstChild(BaseChain(last.node), last.key) \notin {Null, last.res}

\* C7. Chain ordering: n.resolveInheritance() returns (when it returns) the
\* nodes reached by following base from n, the most distant first and n.base
\* last: its last entry is n.base, every entry is the base of the entry
\* after it, the first entry has no base, n is not in it, and it is empty
\* exactly when n has no base.
C7_ChainOrdering ==
  \A n \in Nodes :
    LET r == ResolveInheritance(Mem, n)
        c == r.chain
    IN r.ok =>
         /\ (c = <<>>) <=> (BaseOf(n) = Null)
         /\ c # <<>> => (c[Len(c)] = BaseOf(n) /\ BaseOf(c[1]) = Null)
         /\ \A i \in 1..(Len(c) - 1) : c[i] = BaseOf(c[i + 1])
         /\ n \notin Range(c)

\* resolveInheritance() on C, with base B whose base is A, returned <<A, B>>.
C7_Witness ==
  /\ last.op = "resolveInheritance"
  /\ ~hung
  /\ Len(last.chain) = 2
  /\ last.chain[2] = base[last.node]
  /\ last.chain[1] = base[last.chain[2]]
  /\ last.chain[1] # last.chain[2]

\* C8. Absent resolution: n.resolveChild(k) returns (when it returns) absent
\* exactly when k is registered neither on n nor on any node of n's
\* inheritance chain.
C8_AbsentResolution ==
  \A n \in Nodes :
    LET chain == BaseChain(n)
    IN \A k \in Names :
         LET r == ResolveChild(Mem, n, k)
         IN r.ok =>
              ((r.v = Null) <=>
                 \A x \in {n} \cup Range(chain) : children[x][k] = Null)

\* resolveChild(k) returned absent on a node that has a base, and whose chain
\* and children hold other names only.
C8_Witness ==
  /\ last.op = "resolveChild"
  /\ ~hung
  /\ last.res = Null
  /\ Len(BaseChain(last.node)) >= 2
  /\ \E x \in Range(BaseChain(last.node)), k \in Names : children[x][k] # Null
  /\ \A x \in {last.node} \cup Range(BaseChain(last.node)) :
       children[x][last.key] = Null

\* C9. Agreement between resolveChild and the lazy base: when n has a base
\* and no direct child named k, and n.resolveChild(k) returns x, then for the
\* child c that ensureChild(k) creates on n, a read of c.base returns x
\* (absent when x is absent) and n.resolveChild(k) returns c.
C9_Step ==
  \A n \in Nodes, k \in Names :
    \A c \in {ChildId(n, k)} \ Nodes :
      (/\ children[n][k] = Null
       /\ c \in Nodes'
       /\ children'[n][k] = c
       /\ parent'[c] = n
       /\ BaseOf(n) # Null
       /\ ResolveChild(Mem, n, k).ok)
      => /\ BaseGet(Mem, c)'.ok
         /\ BaseGet(Mem, c)'.v = ResolveChild(Mem, n, k).v
         /\ ResolveChild(Mem, n, k)'.ok
         /\ ResolveChild(Mem, n, k)'.v = c

C9_ResolveChildAgreesWithBase == [][C9_Step]_vars

\* ensureChild(k) has just created c on a node n that has a base, and the
\* base of c, not yet read, resolves to a child of n's inheritance chain.
C9_Witness ==
  /\ last.op = "ensureChild"
  /\ last.res # Null
  /\ last.res # InitChild
  /\ parent[last.res] = last.node
  /\ name[last.res] = last.key
  /\ BaseOf(last.node) # Null
  /\ base[last.res] = Null
  /\ decl[last.res] = NoDecl
  /\ BaseOf(last.res) # Null
  /\ BaseOf(last.res) = FirstChild(BaseChain(last.node), last.key)

\* C10. Idempotent child creation: ensureChild(k) on n returns the child
\* already registered under k (also one registered by setChild) and runs no
\* factory; otherwise it creates exactly one child named k with parent n,
\* registers it under k and returns it.  Either way the returned node is the
\* one registered under k afterwards and no other entry of any child
\* mapping changes.  (A repeated call that returns the same node again
\* changes nothing at all.)
C10_Step ==
  (last' # last /\ last'.op = "ensureChild") =>
    LET n == last'.node
        k == last'.key
        c == last'.res
    IN /\ c # Null
       /\ children'[n][k] = c
       /\ \A m \in Nodes, j \in Names :
            (m # n \/ j # k) => children'[m][j] = children[m][j]
       /\ IF children[n][k] # Null
          THEN c = children[n][k] /\ Nodes' = Nodes /\ calls' = calls
          ELSE /\ c \notin Nodes
               /\ Nodes' = Nodes \cup {c}
               /\ calls' = calls + 1
               /\ name'[c] = k
               /\ parent'[c] = n

C10_IdempotentEnsureChild == [][C10_Step]_vars

\* ensureChild(k) returned a node that setChild had registered under k.
C10_Witness ==
  /\ last.op = "ensureChild"
  /\ children[last.node][last.key] = last.res
  /\ (parent[last.res] # last.node \/ name[last.res] # last.key)

\* C11. No-parent base: for a node n constructed without a parent on which
\* setBase was never called, in every reachable state a read of n.base
\* returns absent and writes no cache, whatever children were added anywhere
\* and whatever bases the other nodes have.
C11_NoParentBase ==
  \A n \in Nodes :
    (parent[n] = Null /\ decl[n] = NoDecl) =>
      BaseGet(Mem, n) = Ret(Null, Mem)

\* A read of the base of a parentless node without a declared base returned
\* absent after that node was given a child and another node a new base.
C11_Witness ==
  /\ last.op = "base"
  /\ ~hung
  /\ parent[last.node] = Null
  /\ decl[last.node] = NoDecl
  /\ last.res = Null
  /\ \E k \in Names : children[last.node][k] \notin {Null, InitChild}
  /\ \E x \in Roots : decl[x] # InitDecl[x]

\* Safe(x): the read of x.base only follows chains that revisit no node (x
\* has its base cached, or has no parent, or the chain of its parent is
\* straight).  StraightFrom(x, seen): following base from x, after the nodes
\* of seen, no node is visited twice and every read on the way is safe.
RECURSIVE Safe(_), StraightFrom(_, _)
Safe(x) ==
  \/ parent[x] = Null
  \/ base[x] # Null
  \/ StraightFrom(parent[x], {})

StraightFrom(x, seen) ==
  /\ Safe(x)
  /\ LET b == BaseOf(x)
     IN b = Null \/ (b \notin seen \cup {x} /\ StraightFrom(b, seen \cup {x}))

Straight(x) == StraightFrom(x, {})

\* Following base from x, every read returning, comes back to a node that
\* was visited (x included).
RECURSIVE ComesBack(_, _)
ComesBack(x, seen) ==
  LET r == BaseGet(Mem, x)
  IN /\ r.ok
     /\ r.v # Null
     /\ (r.v \in seen \cup {x} \/ ComesBack(r.v, seen \cup {x}))

\* C12. Totality: in every reachable state, a read of n.base returns when
\* the chains it follows revisit no node; n.resolveInheritance() and
\* n.resolveChild(k), for every k, return when following base from n
\* revisits no node; what they return is a node, a sequence of nodes or
\* absent, as is what getChild returns; and when following base from n
\* comes back to a node already visited, n.resolveInheritance() never
\* returns.
C12_Totality ==
  \A n \in Nodes :
    /\ Safe(n) => BaseGet(Mem, n).ok
    /\ Straight(n) =>
         /\ BaseGet(Mem, n).v \in Nodes \cup {Null}
         /\ ResolveInheritance(Mem, n).ok
         /\ Range(ResolveInheritance(Mem, n).chain) \subseteq Nodes
         /\ \A k \in Names :
              /\ ResolveChild(Mem, n, k).ok
              /\ ResolveChild(Mem, n, k).v \in Nodes \cup {Null}
    /\ \A k \in Names : GetChild(n, k) \in Nodes \cup {Null}
    /\ ComesBack(n, {}) => ~ResolveInheritance(Mem, n).ok

\* resolveInheritance() was called on a node from which following base comes
\* back to a visited node, and never returned, while another node's chain is
\* straight and has two nodes.
C12_Witness ==
  /\ hung
  /\ last.op = "resolveInheritance"
  /\ ComesBack(last.node, {})
  /\ \E x \in Nodes : Straight(x) /\ Len(ResolveInheritance(Mem, x).chain) = 2

\* C13. Nearest base wins among inherited children: when n has no direct
\* child registered under k, n.resolveChild(k) returns (when it returns) the
\* direct child registered under k on the first node of n.base, n.base.base,
\* ... that has one.
C13_NearestBaseWins ==
  \A n \in Nodes :
    LET chain == BaseChain(n)
    IN \A k \in Names :
         children[n][k] = Null =>
           LET r == ResolveChild(Mem, n, k)
           IN r.ok => r.v = FirstChild(chain, k)

\* resolveChild(k), on a node without a direct child k, returned the child k
\* of the node's base while the base of that base has another child k.
C13_Witness ==
  /\ last.op = "resolveChild"
  /\ ~hung
  /\ children[last.node][last.key] = Null
  /\ LET c == BaseChain(last.node)
     IN /\ Len(c) >= 2
        /\ last.res # Null
        /\ last.res = children[c[1]][last.key]
        /\ children[c[2]][last.key] \notin {Null, last.res}

\* The fields of the nodes other than the base caches.
tree == <<name, parent, root, children, keys, baseName>>

\* C14. Frame of the queries: a step of the base getter, resolveInheritance,
\* resolveChild, children or childrenMap changes no node's child mapping,
\* name, parent, root or baseName, and changes the base cache of no node
\* that had a node cached; a step of getChild or of the accessors name,
\* baseName, parent and block changes no field of any node, so every
\* accessor returns afterwards what it returned before.
C14_Step ==
  /\ (\/ \E n \in Nodes : ReadBase(n)
      \/ \E n \in Nodes : CallResolveInheritance(n)
      \/ \E n \in Nodes, k \in Names : CallResolveChild(n, k)
      \/ CallChildren
      \/ CallChildrenMap)
     => /\ UNCHANGED tree
        /\ \A x \in Nodes : base[x] # Null => base'[x] = base[x]
  /\ ((\E n \in Nodes, k \in Names : CallGetChild(n, k)) \/ ReadAccessor)
     => /\ UNCHANGED <<tree, base>>
        /\ \A n \in Nodes, f \in Accessors : Accessor(n, f)' = Accessor(n, f)

C14_FrameOfQueries == [][C14_Step]_vars

\* childrenMap() or children() was called, and a read has filled the base
\* cache of a node with a parent, on which setBase was never called.
C14_Witness ==
  /\ ~hung
  /\ snap.kind # "none"
  /\ \E c \in Nodes :
       /\ parent[c] # Null
       /\ decl[c] = NoDecl
       /\ base[c] # Null

\* C15. Snapshot isolation of childrenMap and children: the collection a
\* call returns holds the entries (the values) of the node's child mapping
\* in their order; a step in which the caller adds, overwrites or removes an
\* entry of the returned collection changes no node's child mapping, so
\* that getChild, ensureChild's test and resolveChild answer as before; and
\* a step of setChild or ensureChild changes nothing in the collection that
\* was returned earlier.
C15_Step ==
  /\ CallChildrenMap =>
       \A n \in Nodes :
         snap' = ChildrenMap(n) =>
           snap'.map = children[n] /\ snap'.order = keys[n]
  /\ CallChildren =>
       \A n \in Nodes :
         snap' = ChildrenList(n) =>
           /\ Len(snap'.list) = Len(keys[n])
           /\ \A i \in 1..Len(keys[n]) : snap'.list[i] = children[n][keys[n][i]]
  /\ (EditMap \/ EditList) =>
       /\ children' = children
       /\ keys' = keys
       /\ \A n \in Nodes, k \in Names :
            /\ GetChild(n, k)' = GetChild(n, k)
            /\ LacksChild(n, k)' = LacksChild(n, k)
            /\ ResolveChild(Mem, n, k)' = ResolveChild(Mem, n, k)
  /\ (\/ \E n \in Nodes, k \in Names, c \in Nodes : SetChild(n, k, c)
      \/ \E n \in Nodes, k \in Names : EnsureChild(n, k))
     => Content(snap)' = Content(snap)

C15_SnapshotIsolation == [][C15_Step]_vars

\* The caller of childrenMap() has edited the map it was given, which now
\* differs from the child mapping of the node, the mappings of all nodes
\* being what they were in the initial state.
C15_Witness ==
  /\ snap.kind = "map"
  /\ Nodes = InitNodes
  /\ \A n \in Nodes, k \in Names :
       children[n][k] = IF n = NumRoots /\ k = "a" THEN InitChild ELSE Null
  /\ snap.map # children[snap.node]

\* C16. Order independence of lazy resolution: a step that only fills base
\* caches (a step of the base getter, resolveInheritance or resolveChild
\* that returns: the fields of the nodes and the declared bases are left
\* alone) changes the answer of no query: for every node n and key k, what
\* n.base, n.resolveChild(k) and n.resolveInheritance() return (when they
\* return) is after the step what it was before.  So, between two mutations,
\* each query has one answer, in whatever order the queries are issued and
\* whichever caches they have filled.
C16_Step ==
  (UNCHANGED <<tree, decl>> /\ base' # base /\ ~hung')
  => LET after == [base |-> base']
     IN \A n \in Nodes :
          /\ BaseGet(Mem, n).ok =>
               /\ BaseGet(after, n).ok
               /\ BaseGet(after, n).v = BaseGet(Mem, n).v
          /\ ResolveInheritance(Mem, n).ok =>
               /\ ResolveInheritance(after, n).ok
               /\ ResolveInheritance(after, n).chain
                    = ResolveInheritance(Mem, n).chain
          /\ \A k \in Names :
               ResolveChild(Mem, n, k).ok =>
                 /\ ResolveChild(after, n, k).ok
                 /\ ResolveChild(after, n, k).v = ResolveChild(Mem, n, k).v

C16_OrderIndependence == [][C16_Step]_vars

\* Reads have filled the base caches of two nodes that have parents, and the
\* latest read returned the base of a node whose parent's base chain has two
\* nodes.
C16_Witness ==
  /\ last.op = "base"
  /\ ~hung
  /\ parent[last.node] # Null
  /\ last.res # Null
  /\ Len(BaseChain(parent[last.node])) >= 2
  /\ \E c, d \in Nodes :
       /\ c # d
       /\ parent[c] # Null /\ decl[c] = NoDecl /\ base[c] # Null
       /\ parent[d] # Null /\ decl[d] = NoDecl /\ base[d] # Null

\* Every entry of a child mapping is a node that has the mapping's node as
\* its parent and the entry's key as its name (it was put there by
\* ensureChild), and setBase was called on no node that has a parent.
OwnChildren ==
  /\ \A n \in Nodes, k \in Names :
       children[n][k] # Null =>
         parent[children[n][k]] = n /\ name[children[n][k]] = k
  /\ \A c \in Nodes : parent[c] # Null => decl[c] = NoDecl

\* The memory with every cache empty: the declared bases only.
Declared == [base |-> [x \in Nodes |-> decl[x].b]]

\* No mutation has outdated a cache: every cached base is the one a
\* derivation on the present tree gives.
CachesCurrent ==
  \A x \in Nodes :
    (parent[x] # Null /\ base[x] # Null) =>
      LET r == BaseGet(Declared, x) IN r.ok /\ r.v = base[x]

\* The direct children registered under k on the nodes of seq, in the order
\* of seq, the nodes without one being skipped.
Mirror(seq, k) ==
  SelectSeq([i \in 1..Len(seq) |-> children[seq[i]][k]], LAMBDA x : x # Null)

\* C17. The inheritance chain of a child mirrors its parent's chain: in
\* every state in which every child is where ensureChild put it, setBase was
\* called on no child and no cache is outdated, for a node n whose
\* resolveInheritance() returns and its direct child c registered under k,
\* c.resolveInheritance() returns the direct children registered under k on
\* the nodes of n.resolveInheritance(), in the same order, the nodes without
\* such a child being skipped.
C17_ChildChainMirrors ==
  (OwnChildren /\ CachesCurrent) =>
    \A n \in Nodes, k \in Names :
      (children[n][k] # Null /\ ResolveInheritance(Mem, n).ok) =>
        LET r == ResolveInheritance(Mem, children[n][k])
        IN /\ r.ok
           /\ r.chain = Mirror(ResolveInheritance(Mem, n).chain, k)

\* resolveInheritance() on the child c of a node n returned two nodes: the
\* children, named as c, of the two nodes of n.resolveInheritance().
C17_Witness ==
  /\ last.op = "resolveInheritance"
  /\ ~hung
  /\ OwnChildren
  /\ CachesCurrent
  /\ parent[last.node] # Null
  /\ children[parent[last.node]][name[last.node]] = last.node
  /\ Len(last.chain) = 2
  /\ last.chain[1] # last.chain[2]
  /\ last.chain
       = Mirror(ResolveInheritance(Mem, parent[last.node]).chain,
                name[last.node])

\* Every call made after the initial state that constructed or assigned was
\* a newChild of ensureChild: no setBase, no setChild.  (In the initial
\* state setBase was called once on some parentless nodes and on no other
\* node.)
OnlyEnsureChild == calls = Cardinality(Nodes) - Cardinality(InitNodes)

\* Following the declared bases from x, after the nodes of seen, comes back
\* to no node.
RECURSIVE DeclaredEnds(_, _)
DeclaredEnds(x, seen) ==
  \/ decl[x].b = Null
  \/ /\ decl[x].b \notin seen \cup {x}
     /\ DeclaredEnds(decl[x].b, seen \cup {x})

\* C18. Lazy derivation introduces no cycle: in every state reached from
\* the initial state by ensureChild calls and queries only (children are
\* where ensureChild put them, setBase was called on parentless nodes only
\* and once at most, the declared bases form no cycle), no query has
\* entered an endless loop, following base from any node revisits no node,
\* and base, resolveChild(k) and resolveInheritance return for every node
\* and key.
C18_NoCycleFromDerivation ==
  (OnlyEnsureChild /\ \A x \in Nodes : DeclaredEnds(x, {})) =>
    /\ ~hung
    /\ OwnChildren
    /\ \A n \in Nodes :
         /\ Straight(n)
         /\ ~ComesBack(n, {})
         /\ BaseGet(Mem, n).ok
         /\ ResolveInheritance(Mem, n).ok
         /\ \A k \in Names : ResolveChild(Mem, n, k).ok

\* ensureChild created a child after a read had filled the base cache of
\* another child, every call having been an ensureChild or a query.
C18_Witness ==
  /\ last.op = "ensureChild"
  /\ OnlyEnsureChild
  /\ \A x \in Nodes : DeclaredEnds(x, {})
  /\ last.res \notin InitNodes
  /\ parent[last.res] = last.node
  /\ base[last.res] = Null
  /\ \E c \in Nodes : c # last.res /\ parent[c] # Null /\ base[c] # Null
  /\ BaseOf(last.res) # Null
====
